---- MODULE Spec2Model ----
(***************************************************************************)
(* The result layer of cudarc's CUDA runtime wrapper (src/cudart/result.rs) *)
(* as a state machine: two host threads invoke the wrapped device and      *)
(* occupancy operations; each invocation allocates its output storage,     *)
(* issues its foreign call against the native runtime, checks the status   *)
(* and returns.  The native runtime (the sys bindings and the library      *)
(* behind them) is an environment whose state may change between calls.    *)
(***************************************************************************)
EXTENDS Integers, Sequences, FiniteSets, TLC

VARIABLES rt, pc, inv, out, status, ret, ffiCalls, readOut, fresh, lastCount

vars == <<rt, pc, inv, out, status, ret, ffiCalls, readOut, fresh, lastCount>>

----------------------------------------------------------------------------
(* Bounds of the model *)

MaxDevices == 2

Threads == {"t1", "t2"}

----------------------------------------------------------------------------
(* sys: the status vocabulary, the attribute selectors, the property record *)

cudaSuccess == "cudaSuccess"

ErrorCodes ==
    {"cudaErrorInvalidValue", "cudaErrorInsufficientDriver",
     "cudaErrorNoDevice", "cudaErrorInvalidDevice"}

cudaError_t == {cudaSuccess} \cup ErrorCodes

cudaDeviceAttr == {"cudaDevAttrMultiProcessorCount", "cudaDevAttrMaxSharedMemoryPerBlock"}

MemSizes == {1, 2}
OccValues == {0, 1}
BlockSizes == {0, 1}

cudaDeviceProp ==
    [totalGlobalMem : MemSizes, multiProcessorCount : {1}, sharedMemPerBlock : {0}]

cudaFunction_t == {"kernel"}

CudartDevice == 0..MaxDevices

None == "None"
Unit == "()"
Uninit == <<>>

----------------------------------------------------------------------------
(* The native runtime: status of the driver, device table, current device *)

DeviceTables == UNION {[1..n -> cudaDeviceProp] : n \in 0..MaxDevices}

RuntimeStates ==
    {r \in [driver : {cudaSuccess, "cudaErrorInsufficientDriver"},
            devices : DeviceTables,
            current : 0..MaxDevices] :
        /\ IF Len(r.devices) = 0 THEN r.current = 0 ELSE r.current < Len(r.devices)
        /\ r.driver # cudaSuccess => r.devices = <<>>}

(* Changes made outside the wrapper: the driver fails or recovers, a device *)
(* appears or disappears, the current device is switched.                  *)
RuntimeSuccessors(r) ==
    IF r.driver # cudaSuccess
    THEN {[r EXCEPT !.driver = cudaSuccess]}
    ELSE {[r EXCEPT !.driver = "cudaErrorInsufficientDriver", !.devices = <<>>, !.current = 0]}
         \cup {[r EXCEPT !.devices = Append(r.devices, p)] :
                  p \in IF Len(r.devices) < MaxDevices THEN cudaDeviceProp ELSE {}}
         \cup {[r EXCEPT !.devices = SubSeq(r.devices, 1, Len(r.devices) - 1),
                         !.current = IF r.current < Len(r.devices) - 1 THEN r.current ELSE 0] :
                  x \in IF Len(r.devices) > 0 THEN {1} ELSE {}}
         \cup {[r EXCEPT !.current = c] : c \in (0..(Len(r.devices) - 1)) \ {r.current}}

Wrote(st, v) == [status |-> st, written |-> <<v>>]
Failed(st) == [status |-> st, written |-> <<>>]

ValidDevice(r, device) == device >= 0 /\ device < Len(r.devices)

cudaGetErrorName(error) == error

cudaGetErrorString(error) ==
    CASE error = "cudaSuccess" -> "no error"
      [] error = "cudaErrorInvalidValue" -> "invalid argument"
      [] error = "cudaErrorInsufficientDriver" ->
            "CUDA driver version is insufficient for CUDA runtime version"
      [] error = "cudaErrorNoDevice" -> "no CUDA-capable device is detected"
      [] error = "cudaErrorInvalidDevice" -> "invalid device ordinal"
      [] OTHER -> "unrecognized error code"

cudaGetDevice(r) ==
    IF r.driver # cudaSuccess THEN {Failed(r.driver)}
    ELSE IF Len(r.devices) = 0 THEN {Failed("cudaErrorNoDevice")}
    ELSE {Wrote(cudaSuccess, r.current)}

cudaGetDeviceCount(r) ==
    IF r.driver # cudaSuccess THEN {Failed(r.driver)}
    ELSE {Wrote(cudaSuccess, Len(r.devices))}

cudaGetDeviceProperties_v2(r, device) ==
    IF r.driver # cudaSuccess THEN {Failed(r.driver)}
    ELSE IF ~ValidDevice(r, device) THEN {Failed("cudaErrorInvalidDevice")}
    ELSE {Wrote(cudaSuccess, r.devices[device + 1])}

AttrOf(prop, attr) ==
    IF attr = "cudaDevAttrMultiProcessorCount" THEN prop.multiProcessorCount
    ELSE prop.sharedMemPerBlock

cudaDeviceGetAttribute(r, attr, device) ==
    IF r.driver # cudaSuccess THEN {Failed(r.driver)}
    ELSE IF ~ValidDevice(r, device) THEN {Failed("cudaErrorInvalidDevice")}
    ELSE {Wrote(cudaSuccess, AttrOf(r.devices[device + 1], attr))}

Occupancy(r, block_size) ==
    IF r.driver # cudaSuccess THEN {Failed(r.driver)}
    ELSE IF Len(r.devices) = 0 THEN {Failed("cudaErrorNoDevice")}
    ELSE IF block_size <= 0 THEN {Failed("cudaErrorInvalidValue")}
    ELSE {Wrote(cudaSuccess, v) : v \in OccValues}

cudaOccupancyAvailableDynamicSMemPerBlock(r, f, num_blocks, block_size) ==
    Occupancy(r, block_size)

cudaOccupancyMaxActiveBlocksPerMultiprocessor(r, f, block_size, dynamic_smem_size) ==
    Occupancy(r, block_size)

cudaOccupancyMaxActiveBlocksPerMultiprocessorWithFlags(r, f, block_size, dynamic_smem_size, flags) ==
    Occupancy(r, block_size)

----------------------------------------------------------------------------
(* CudartError and the status translation *)

Ok(v) == [ok |-> TRUE, val |-> v, err |-> <<>>]
Err(e) == [ok |-> FALSE, val |-> <<>>, err |-> e]

CudartError(code) == <<code>>

result_allErr(self) == Err(CudartError(self))

result_fixedCode(self) ==
    IF self = cudaSuccess THEN Ok(<<Unit>>) ELSE Err(CudartError("cudaErrorInvalidValue"))

result_downgrade(self) ==
    IF self \in {cudaSuccess, "cudaErrorInvalidValue"} THEN Ok(<<Unit>>)
    ELSE Err(CudartError(self))

result(self) ==
    IF self = cudaSuccess THEN Ok(<<Unit>>) ELSE Err(CudartError(self))

CStr_from_ptr(ptr) == ptr

error_name(self) == CStr_from_ptr(cudaGetErrorName(self[1]))

error_string(self) == CStr_from_ptr(cudaGetErrorString(self[1]))

eq_isError(a, b) == (a[1] = cudaSuccess) = (b[1] = cudaSuccess)

eq(a, b) == a[1] = b[1]

----------------------------------------------------------------------------
(* The wrapped operations: output storage, foreign call, status check *)

DeviceFns == {"get", "get_count", "get_property", "total_mem", "get_attribute"}

OccupancyFns ==
    {"available_dynamic_shared_mem_per_block",
     "max_active_block_per_multiprocessor",
     "max_active_block_per_multiprocessor_with_flags"}

Invocations ==
    {[fn |-> "get"], [fn |-> "get_count"]}
    \cup {[fn |-> fn, device |-> d] : fn \in {"get_property", "total_mem"}, d \in CudartDevice}
    \cup {[fn |-> "get_attribute", device |-> d, attribute |-> a] :
            d \in CudartDevice, a \in cudaDeviceAttr}
    \cup {[fn |-> fn, f |-> f, block_size |-> b] :
            fn \in OccupancyFns, f \in cudaFunction_t, b \in BlockSizes}

(* Thread t1 calls any wrapped function; thread t2 runs device-count queries *)
(* concurrently with it.                                                    *)
Workload(t) == IF t = "t1" THEN Invocations ELSE {[fn |-> "get_count"]}

(* Storage is <<>> while uninitialized and <<v>> once the callee wrote v; *)
(* assume_init hands the storage over as a value without checking it.     *)
assume_init(storage) == storage

Propagate(r) == [ret |-> Err(r.err), read |-> FALSE]
Value(v) == [ret |-> Ok(v), read |-> TRUE]

Storage_allZero(fn) == <<0>>

Storage(fn) == IF fn = "get" THEN <<0>> ELSE Uninit

get(st, dev) ==
    IF ~result(st).ok THEN Propagate(result(st)) ELSE Value(dev)

get_count(st, count) ==
    IF ~result(st).ok THEN Propagate(result(st)) ELSE Value(assume_init(count))

get_property_unchecked(st, prop) == Value(assume_init(prop))

get_property(st, prop) ==
    IF ~result(st).ok THEN Propagate(result(st)) ELSE Value(assume_init(prop))

total_mem_otherField(st, prop) ==
    IF ~result(st).ok THEN Propagate(result(st))
    ELSE Value(<<assume_init(prop)[1].sharedMemPerBlock>>)

total_mem(st, prop) ==
    IF ~result(st).ok THEN Propagate(result(st))
    ELSE Value(<<assume_init(prop)[1].totalGlobalMem>>)

get_attribute(st, value) ==
    IF ~result(st).ok THEN Propagate(result(st)) ELSE Value(assume_init(value))

available_dynamic_shared_mem_per_block(st, dynamic_smem_size) ==
    IF ~result(st).ok THEN Propagate(result(st))
    ELSE Value(assume_init(dynamic_smem_size))

max_active_block_per_multiprocessor_unchecked(st, num_blocks) ==
    Value(assume_init(num_blocks))

max_active_block_per_multiprocessor(st, num_blocks) ==
    IF ~result(st).ok THEN Propagate(result(st)) ELSE Value(assume_init(num_blocks))

max_active_block_per_multiprocessor_with_flags(st, num_blocks) ==
    IF ~result(st).ok THEN Propagate(result(st)) ELSE Value(assume_init(num_blocks))

Foreign_nextDevice(r, i) ==
    CASE i.fn = "get" -> cudaGetDevice(r)
      [] i.fn = "get_count" -> cudaGetDeviceCount(r)
      [] i.fn = "get_property" -> cudaGetDeviceProperties_v2(r, i.device)
      [] i.fn = "total_mem" -> cudaGetDeviceProperties_v2(r, i.device)
      [] i.fn = "get_attribute" -> cudaDeviceGetAttribute(r, i.attribute, i.device + 1)
      [] i.fn = "available_dynamic_shared_mem_per_block" ->
            cudaOccupancyAvailableDynamicSMemPerBlock(r, i.f, 1, i.block_size)
      [] i.fn = "max_active_block_per_multiprocessor" ->
            cudaOccupancyMaxActiveBlocksPerMultiprocessor(r, i.f, i.block_size, 0)
      [] i.fn = "max_active_block_per_multiprocessor_with_flags" ->
            cudaOccupancyMaxActiveBlocksPerMultiprocessorWithFlags(r, i.f, i.block_size, 0, 0)

Foreign(r, i) ==
    CASE i.fn = "get" -> cudaGetDevice(r)
      [] i.fn = "get_count" -> cudaGetDeviceCount(r)
      [] i.fn = "get_property" -> cudaGetDeviceProperties_v2(r, i.device)
      [] i.fn = "total_mem" -> cudaGetDeviceProperties_v2(r, i.device)
      [] i.fn = "get_attribute" -> cudaDeviceGetAttribute(r, i.attribute, i.device)
      [] i.fn = "available_dynamic_shared_mem_per_block" ->
            cudaOccupancyAvailableDynamicSMemPerBlock(r, i.f, 1, i.block_size)
      [] i.fn = "max_active_block_per_multiprocessor" ->
            cudaOccupancyMaxActiveBlocksPerMultiprocessor(r, i.f, i.block_size, 0)
      [] i.fn = "max_active_block_per_multiprocessor_with_flags" ->
            cudaOccupancyMaxActiveBlocksPerMultiprocessorWithFlags(r, i.f, i.block_size, 0, 0)

Finish(fn, st, storage) ==
    CASE fn = "get" -> get(st, storage)
      [] fn = "get_count" -> get_count(st, storage)
      [] fn = "get_property" -> get_property(st, storage)
      [] fn = "total_mem" -> total_mem(st, storage)
      [] fn = "get_attribute" -> get_attribute(st, storage)
      [] fn = "available_dynamic_shared_mem_per_block" ->
            available_dynamic_shared_mem_per_block(st, storage)
      [] fn = "max_active_block_per_multiprocessor" ->
            max_active_block_per_multiprocessor(st, storage)
      [] fn = "max_active_block_per_multiprocessor_with_flags" ->
            max_active_block_per_multiprocessor_with_flags(st, storage)

OtherThread(t) == CHOOSE u \in Threads : u # t

local_shared(t) ==
    IF /\ inv[t].fn = "get_count"
       /\ pc[OtherThread(t)] # "idle" /\ inv[OtherThread(t)].fn = "get_count"
    THEN out[OtherThread(t)] ELSE out[t]

local(t) == out[t]

----------------------------------------------------------------------------
(* The state machine *)

Init ==
    /\ rt \in RuntimeStates
    /\ pc = [t \in Threads |-> "idle"]
    /\ inv = [t \in Threads |-> None]
    /\ out = [t \in Threads |-> Uninit]
    /\ status = [t \in Threads |-> None]
    /\ ret = [t \in Threads |-> None]
    /\ ffiCalls = [t \in Threads |-> 0]
    /\ readOut = [t \in Threads |-> FALSE]
    /\ fresh = [t \in Threads |-> FALSE]
    /\ lastCount = [t \in Threads |-> <<>>]

Invoke(t, i) ==
    /\ pc[t] \in {"idle", "done"}
    /\ pc' = [pc EXCEPT ![t] = "alloc"]
    /\ inv' = [inv EXCEPT ![t] = i]
    /\ out' = [out EXCEPT ![t] = Storage(i.fn)]
    /\ status' = [status EXCEPT ![t] = None]
    /\ ret' = [ret EXCEPT ![t] = None]
    /\ ffiCalls' = [ffiCalls EXCEPT ![t] = 0]
    /\ readOut' = [readOut EXCEPT ![t] = FALSE]
    /\ fresh' = [fresh EXCEPT ![t] = TRUE]
    /\ UNCHANGED <<rt, lastCount>>

ForeignCall(t) ==
    /\ pc[t] = "alloc"
    /\ \E o \in Foreign(rt, inv[t]) :
        /\ status' = [status EXCEPT ![t] = o.status]
        /\ out' = [out EXCEPT ![t] = IF o.written # <<>> THEN o.written ELSE out[t]]
    /\ ffiCalls' = [ffiCalls EXCEPT ![t] = ffiCalls[t] + 1]
    /\ pc' = [pc EXCEPT ![t] = "called"]
    /\ UNCHANGED <<rt, inv, ret, readOut, fresh, lastCount>>

Return(t) ==
    /\ pc[t] = "called"
    /\ LET r == Finish(inv[t].fn, status[t], local(t)) IN
        /\ ret' = [ret EXCEPT ![t] = r.ret]
        /\ readOut' = [readOut EXCEPT ![t] = r.read]
        /\ lastCount' =
              IF inv[t].fn = "get_count"
              THEN [lastCount EXCEPT ![t] = IF r.ret.ok /\ fresh[t] THEN <<r.ret.val>> ELSE <<>>]
              ELSE lastCount
    /\ out' = [out EXCEPT ![t] = Uninit]
    /\ pc' = [pc EXCEPT ![t] = "done"]
    /\ UNCHANGED <<rt, inv, status, ffiCalls, fresh>>

RuntimeChange ==
    /\ rt' \in RuntimeSuccessors(rt)
    /\ fresh' = [t \in Threads |-> FALSE]
    /\ lastCount' = [t \in Threads |-> <<>>]
    /\ UNCHANGED <<pc, inv, out, status, ret, ffiCalls, readOut>>

Next ==
    \/ \E t \in Threads : \E i \in Workload(t) : Invoke(t, i)
    \/ \E t \in Threads : ForeignCall(t)
    \/ \E t \in Threads : Return(t)
    \/ RuntimeChange

Spec == Init /\ [][Next]_vars

----------------------------------------------------------------------------
(* Whole-call outcomes in a given runtime state *)

Call(r, i) ==
    {Finish(i.fn, o.status, IF o.written # <<>> THEN o.written ELSE Storage(i.fn)).ret :
        o \in Foreign(r, i)}

InCall(t) == pc[t] \in {"called", "done"}
Done(t, fn) == pc[t] = "done" /\ inv[t].fn = fn

(* The result a get_count call of thread t has returned, or is about to return, *)
(* when the runtime has not changed since the call began.                       *)
CountResult(t) ==
    IF pc[t] = "called" /\ inv[t].fn = "get_count" /\ fresh[t]
    THEN <<Finish("get_count", status[t], local(t)).ret>>
    ELSE IF Done(t, "get_count") /\ fresh[t] THEN <<ret[t]>> ELSE <<>>

ReportedCount(u) == lastCount[u] # <<>> /\ lastCount[u][1] # <<>>

----------------------------------------------------------------------------
(* C1: a status equal to cudaSuccess translates to Ok(()), and the operation *)
(* that received it returns Ok.                                              *)
C1_SuccessIsOk ==
    \A t \in Threads :
        (InCall(t) /\ status[t] = cudaSuccess) =>
            /\ result(status[t]) = Ok(<<Unit>>)
            /\ pc[t] = "done" => ret[t].ok

C1_Witness ==
    \E t \in Threads : pc[t] = "done" /\ status[t] = cudaSuccess /\ ret[t].ok

(* C2: a non-success status translates to an error that stores exactly that *)
(* status and whose name and description are non-empty.                      *)
C2_ErrorCarriesCode ==
    \A t \in Threads :
        (InCall(t) /\ status[t] # cudaSuccess) =>
            LET r == result(status[t]) IN
                /\ ~r.ok
                /\ r.err[1] = status[t]
                /\ error_name(r.err) # ""
                /\ error_string(r.err) # ""
                /\ pc[t] = "done" => ret[t] = r

C2_Witness ==
    \E t \in Threads :
        /\ pc[t] = "done" /\ status[t] = "cudaErrorInvalidDevice"
        /\ ret[t].err = <<"cudaErrorInvalidDevice">>
        /\ error_name(ret[t].err) = "cudaErrorInvalidDevice"

(* C3: total_mem(device) has the outcome of get_property(device) followed by *)
(* reading totalGlobalMem: the same value on success, the same error on      *)
(* failure, through the same foreign call.                                   *)
FieldOfProperty(p) == IF p.ok THEN Ok(<<p.val[1].totalGlobalMem>>) ELSE p

C3_TotalMemIsPropertyField ==
    /\ \A d \in CudartDevice :
        /\ Foreign(rt, [fn |-> "total_mem", device |-> d])
             = Foreign(rt, [fn |-> "get_property", device |-> d])
        /\ Call(rt, [fn |-> "total_mem", device |-> d])
             = {FieldOfProperty(p) : p \in Call(rt, [fn |-> "get_property", device |-> d])}
    /\ \A t \in Threads :
        (Done(t, "total_mem") /\ fresh[t]) =>
            ret[t] \in {FieldOfProperty(p) :
                          p \in Call(rt, [fn |-> "get_property", device |-> inv[t].device])}

C3_Witness ==
    \E t \in Threads :
        /\ Done(t, "total_mem") /\ fresh[t] /\ ret[t].ok
        /\ ret[t].val = <<rt.devices[inv[t].device + 1].totalGlobalMem>>
        /\ ret[t].val = <<2>>

C5_InRangeIsOk ==
    \A t \in Threads, u \in Threads :
        ( /\ pc[t] = "done" /\ inv[t].fn \in {"get_property", "get_attribute"}
          /\ fresh[t] /\ ReportedCount(u)
          /\ lastCount[u][1][1] > 0
          /\ inv[t].device >= 0 /\ inv[t].device < lastCount[u][1][1] ) =>
            ret[t].ok

C5_Witness ==
    \E t \in Threads, u \in Threads :
        /\ Done(t, "get_attribute") /\ fresh[t] /\ ReportedCount(u)
        /\ lastCount[u][1][1] = 2 /\ inv[t].device = 1
        /\ ret[t].ok

(* C6: two get_count calls that overlap, with no change of the runtime since *)
(* either began, return the same result.                                     *)
C6_ConcurrentCountsAgree ==
    \A t \in Threads, u \in Threads :
        (CountResult(t) # <<>> /\ CountResult(u) # <<>>) => CountResult(t) = CountResult(u)

C6_Witness ==
    /\ \A t \in Threads : pc[t] = "called" /\ inv[t].fn = "get_count" /\ fresh[t]
    /\ CountResult("t1") = <<Ok(<<2>>)>>
    /\ CountResult("t2") = <<Ok(<<2>>)>>

(* C7: equality of errors is reflexive, and two errors are equal exactly when *)
(* their status codes are equal.                                              *)
C7_ErrorEquality ==
    /\ \A c \in ErrorCodes, d \in ErrorCodes :
        /\ eq(CudartError(c), CudartError(c))
        /\ eq(CudartError(c), CudartError(d)) <=> c = d
    /\ \A t \in Threads, u \in Threads :
        (pc[t] = "done" /\ pc[u] = "done" /\ ~ret[t].ok /\ ~ret[u].ok) =>
            /\ eq(ret[t].err, ret[t].err)
            /\ eq(ret[t].err, ret[u].err) <=> status[t] = status[u]

C7_Witness ==
    /\ pc["t1"] = "done" /\ pc["t2"] = "done"
    /\ ~ret["t1"].ok /\ ~ret["t2"].ok
    /\ status["t1"] # status["t2"]
    /\ ~eq(ret["t1"].err, ret["t2"].err)

(* C8: the output storage is read only after the foreign call returned success; *)
(* on a non-success status the error is returned and the storage is not read.   *)
C8_ReadOnlyAfterSuccess ==
    \A t \in Threads :
        /\ pc[t] \in {"alloc", "called"} => ~readOut[t]
        /\ (pc[t] = "called" /\ status[t] = cudaSuccess) => out[t] # Uninit
        /\ (pc[t] = "done" /\ inv[t].fn # "get") =>
            /\ readOut[t] <=> status[t] = cudaSuccess
            /\ status[t] # cudaSuccess => (~ret[t].ok /\ ret[t].val = <<>>)
            /\ status[t] = cudaSuccess => (ret[t].ok /\ ret[t].val # <<>>)

C8_Witness ==
    \E t \in Threads :
        /\ Done(t, "max_active_block_per_multiprocessor")
        /\ status[t] = "cudaErrorInvalidValue"
        /\ ~readOut[t] /\ ~ret[t].ok

(* C9: every invocation issues exactly one foreign call and returns either a *)
(* value or the error carrying the status that call returned.                *)
C9_OneCallOneReport ==
    \A t \in Threads :
        /\ pc[t] = "alloc" => ffiCalls[t] = 0
        /\ InCall(t) => ffiCalls[t] = 1
        /\ pc[t] = "done" =>
            IF status[t] = cudaSuccess THEN ret[t].ok
            ELSE ret[t] = Err(CudartError(status[t]))

C9_Witness ==
    \E t \in Threads :
        /\ Done(t, "available_dynamic_shared_mem_per_block")
        /\ ffiCalls[t] = 1
        /\ ret[t] = Err(CudartError("cudaErrorInvalidValue"))

(* C10 as stated: every device-management operation, the current-device query *)
(* included, starts from uninitialized output storage.                         *)
C10_AllStartUninit ==
    \A t \in Threads :
        (pc[t] = "alloc" /\ inv[t].fn \in DeviceFns) => out[t] = Uninit

(* C10 amended: get_count, get_property, total_mem and get_attribute start from *)
(* uninitialized storage and return it only after a successful call; get starts *)
(* from storage pre-filled with 0.                                              *)
C10_FourStartUninit ==
    \A t \in Threads :
        /\ (pc[t] = "alloc" /\ inv[t].fn \in DeviceFns \ {"get"}) => out[t] = Uninit
        /\ (pc[t] = "alloc" /\ inv[t].fn = "get") => out[t] = <<0>>
        /\ (pc[t] = "done" /\ inv[t].fn \in DeviceFns /\ ret[t].ok) =>
            (status[t] = cudaSuccess /\ readOut[t] /\ ret[t].val # <<>>)

C10_Witness ==
    \E t \in Threads : pc[t] = "alloc" /\ inv[t].fn = "get_count" /\ out[t] = Uninit

====
